---- MODULE Spec2Model ----
(***************************************************************************)
(* enum-to-ts: line splitting, the built-in line strategies, enum body     *)
(* synthesis, content rendering, index generation and the batch            *)
(* orchestrator of class Parser (src/src/includes/parser.ts), with         *)
(* ParserContent and ParserIO (src/unnamed/part_000).                       *)
(*                                                                         *)
(* A JavaScript string is a sequence of one-character strings, so that     *)
(* .length, .slice and ' '.repeat are computed on characters.  Fixed text  *)
(* whose length the code never measures (the banner, "export enum ") is    *)
(* kept as one element.                                                    *)
(***************************************************************************)
EXTENDS Naturals, Integers, Sequences, FiniteSets, TLC

VARIABLES
    EOL,        \* os.EOL of the platform the tool runs on
    split,      \* one call of Parser.splitByEOL: arguments, position, result
    synth,      \* one call of a body synthesizer: arguments, position, result
    batch,      \* one call of parseEnums / parseEnumsWithDescription
    match,      \* one call of a built-in strategy on one line
    index,      \* one call of Parser.generateIndex
    stream      \* runs of a pattern-driven synthesizer sharing one RegExp object

vars == <<EOL, split, synth, batch, match, index, stream>>

-----------------------------------------------------------------------------
(* Characters and values *)

CR == "<CR>"
LF == "<LF>"
SP == " "

\* null and undefined passed where a string is expected
JsNull == <<"<null>">>
JsUndefined == <<"<undefined>">>

\* `${undefined}` in a template literal
UndefinedText == <<"u", "n", "d", "e", "f", "i", "n", "e", "d">>

\* os.EOL is "\n" on POSIX and "\r\n" on Windows
PlatformEOLs == {<<LF>>, <<CR, LF>>}

RECURSIVE Join(_, _)
\* Array.prototype.join(sep)
Join(ss, sep) ==
    IF ss = <<>> THEN <<>>
    ELSE IF Len(ss) = 1 THEN ss[1]
    ELSE ss[1] \o sep \o Join(Tail(ss), sep)

\* String.prototype.repeat(n) of a one-character string, n >= 0
Repeat(ch, n) == [i \in 1..n |-> ch]

\* String.prototype.slice(0, n), 0 <= n
Slice0(s, n) == IF n >= Len(s) THEN s ELSE SubSeq(s, 1, n)

MaxOf(S) == CHOOSE m \in S : \A x \in S : x <= m

-----------------------------------------------------------------------------
(* Parser.splitByEOL *)

\* content || ''
OrEmpty(content) ==
    IF content = JsNull \/ content = JsUndefined \/ content = <<>> THEN <<>> ELSE content

\* the position of the first line-end character of s at or after i, 0 if none:
\* where the next match of the pattern starts (the leftmost one)
NextLineEnd(s, i) ==
    LET at == {j \in i..Len(s) : s[j] = CR \/ s[j] = LF}
    IN  IF at = {} THEN 0 ELSE CHOOSE j \in at : \A k \in at : j <= k

RECURSIVE SplitNoCRLF(_, _)
\* the split with the pattern /\r|\n/, which reads "\r\n" as two line ends
SplitNoCRLF(s, i) ==
    LET j == NextLineEnd(s, i)
    IN  IF j = 0 THEN <<SubSeq(s, i, Len(s))>>
        ELSE <<SubSeq(s, i, j - 1)>> \o SplitNoCRLF(s, j + 1)

RECURSIVE SplitRegExp(_, _)
\* String.prototype.split(/\r\n|\r|\n/) of s from position i: the text up to
\* the next match, then the split of what follows the match.  At the match
\* the alternatives are tried in order, "\r\n" first.
SplitRegExp(s, i) ==
    LET j == NextLineEnd(s, i)
    IN  IF j = 0 THEN <<SubSeq(s, i, Len(s))>>
        ELSE IF s[j] = CR /\ j < Len(s) /\ s[j + 1] = LF
            THEN <<SubSeq(s, i, j - 1)>> \o SplitRegExp(s, j + 2)
        ELSE <<SubSeq(s, i, j - 1)>> \o SplitRegExp(s, j + 1)

IsBlank(line) == \A i \in 1..Len(line) : line[i] = SP

\* the filter line.trim() !== ''
splitByEOL_trim(content, ignoreEmptyLines) ==
    LET arr == SplitRegExp(OrEmpty(content), 1)
    IN  IF ignoreEmptyLines THEN SelectSeq(arr, LAMBDA line : ~IsBlank(line)) ELSE arr

\* the flag ignored: arr returned unfiltered
splitByEOL_unfiltered(content, ignoreEmptyLines) ==
    SplitRegExp(OrEmpty(content), 1)

splitByEOL(content, ignoreEmptyLines) ==
    LET arr == SplitRegExp(OrEmpty(content), 1)
    IN  IF ignoreEmptyLines THEN SelectSeq(arr, LAMBDA line : line # <<>>) ELSE arr

-----------------------------------------------------------------------------
(* Values of the synthesizers *)

\* a falsy string-valued expression: undefined, null or ''
Truthy(v) == v # JsUndefined /\ v # JsNull /\ v # <<>>

\* `${v}` in a template literal
ToText(v) ==
    IF v = JsUndefined THEN UndefinedText
    ELSE IF v = JsNull THEN <<"n", "u", "l", "l">>
    ELSE v

\* a strategy's null
NoMatch == [matched |-> FALSE]

\* `    ${name} = '${value}',`
MemberLine(name, value) ==
    <<SP, SP, SP, SP>> \o ToText(name) \o <<SP, "=", SP, "'">> \o ToText(value) \o <<"'", ",">>

\* `    ${value} = '${value}'` of the pattern-driven getEnums
MemberLineNoComma(value) ==
    <<SP, SP, SP, SP>> \o ToText(value) \o <<SP, "=", SP, "'">> \o ToText(value) \o <<"'">>

\* Math.max(...lines.map(v => v[0].length)), lines not empty
MaxLineLength(lines) == MaxOf({Len(lines[i][1]) : i \in 1..Len(lines)})

\* Math.ceil(maxLen / 4 + 1) * 4
AlignColumn(maxLen) ==
    LET q == maxLen \div 4
        r == maxLen % 4
    IN  (IF r = 0 THEN q + 1 ELSE q + 2) * 4

\* v[0] + spacesStr, the slice left out
PadTo_noSlice(text, maxLen) == text \o Repeat(SP, maxLen)

\* (v[0] + spacesStr).slice(0, maxLen), spacesStr = ' '.repeat(maxLen)
PadTo(text, maxLen) == Slice0(text \o Repeat(SP, maxLen), maxLen)

RECURSIVE MatchedResults_dedup(_, _)
\* a record is dropped when a later line gives the same name
MatchedResults_dedup(srcLines, parseFunc) ==
    IF srcLines = <<>> THEN <<>>
    ELSE LET res == parseFunc[Head(srcLines)]
             rest == MatchedResults_dedup(Tail(srcLines), parseFunc)
         IN  IF res.matched /\ ~\E i \in 1..Len(rest) : rest[i].name = res.name
             THEN <<res>> \o rest
             ELSE rest

RECURSIVE MatchedResults(_, _)
\* the 'data' handler over the stream of lines: the results of the lines for
\* which the strategy returns a result, pushed in arrival order
MatchedResults(srcLines, parseFunc) ==
    IF srcLines = <<>> THEN <<>>
    ELSE LET res == parseFunc[Head(srcLines)]
         IN  (IF res.matched THEN <<res>> ELSE <<>>)
             \o MatchedResults(Tail(srcLines), parseFunc)

\* a promise that resolved with value v
Resolved(v) == [settled |-> TRUE, value |-> v]

\* the 'close' handler threw: its async function rejects, nothing handles
\* the rejection, and resolve is never called
CloseThrew(what) == [settled |-> FALSE, thrown |-> what]

-----------------------------------------------------------------------------
(* Parser.getEnums and Parser.getEnumsWithDescription (ParseInfo.parseFunc) *)

getEnums(fileContent, parseFunc) ==
    LET results == MatchedResults(splitByEOL(fileContent, TRUE), parseFunc)
        lines == [i \in 1..Len(results) |->
                    <<MemberLine(results[i].name, results[i].value), results[i].comment>>]
        hasComments == \E i \in 1..Len(lines) : Truthy(lines[i][2])
    IN  IF hasComments
        THEN LET maxLen == AlignColumn(MaxLineLength(lines))
             IN  Resolved(Join(
                    [i \in 1..Len(lines) |->
                        PadTo(lines[i][1], maxLen)
                        \o (IF Truthy(lines[i][2])
                            THEN <<"/", "/", SP>> \o lines[i][2]
                            ELSE <<>>)],
                    EOL))
        ELSE Resolved(Join([i \in 1..Len(lines) |-> lines[i][1]], EOL))

\* descriptionLines.push(`    ${res.value} = '${res.value}',`): the value, not
\* the comment
DescriptionLine_value(value, description) == MemberLine(value, value)

\* descriptionLines.push(`    ${res.value} = '${res.comment}',`)
DescriptionLine(value, description) == MemberLine(value, description)

getEnumsWithDescription(fileContent, parseFunc) ==
    LET results == MatchedResults(splitByEOL(fileContent, TRUE), parseFunc)
        lines == [i \in 1..Len(results) |->
                    <<MemberLine(results[i].value, results[i].value), results[i].comment>>]
        descriptionLines == [i \in 1..Len(results) |->
                    DescriptionLine(results[i].value, results[i].comment)]
    IN  IF lines = <<>>
        \* Math.max() is -Infinity, and ' '.repeat(-Infinity) throws
        THEN CloseThrew("RangeError")
        ELSE LET maxLen == AlignColumn(MaxLineLength(lines))
             IN  Resolved(<<
                    Join([i \in 1..Len(lines) |->
                            PadTo(lines[i][1], maxLen) \o <<"/", "/", SP>> \o ToText(lines[i][2])],
                         EOL),
                    Join(descriptionLines, EOL)>>)

-----------------------------------------------------------------------------
(* Parser.getEnums and Parser.getEnumsWithDescription (ParseInfo.regExp) *)

\* parseDescriptionFunc?.(src)?.[0] ?? src, where parseDescriptionFunc is
\* absent or maps a string to an array of strings or to null
Description(parseDescriptionFunc, src) ==
    IF parseDescriptionFunc.absent THEN src
    ELSE LET ret == parseDescriptionFunc.table[src]
         IN  IF ret.isNull \/ ret.arr = <<>> THEN src ELSE ret.arr[1]

\* readable.on('close') of getEnums: resolve(outputEnum.join(`,${EOL}`)),
\* results[i].groups[1] being regArr[1] of the i-th accepted line
EnumsRegExpClose(results) ==
    LET outputEnum == [i \in 1..Len(results) |-> MemberLineNoComma(results[i].groups[1])]
    IN  Resolved(Join(outputEnum, <<",">> \o EOL))

\* readable.on('close') of getEnumsWithDescription, results[i].groups being
\* regArr[1] and regArr[2] of the i-th accepted line
EnumsWithDescriptionRegExpClose(results, parseDescriptionFunc) ==
    LET lines == [i \in 1..Len(results) |->
                    <<MemberLine(results[i].groups[1], results[i].groups[1]),
                      Description(parseDescriptionFunc, results[i].groups[2])>>]
        descriptionLines == [i \in 1..Len(lines) |->
                    MemberLine(results[i].groups[1], lines[i][2])]
    IN  IF lines = <<>>
        \* Math.max() is -Infinity, and ' '.repeat(-Infinity) throws
        THEN CloseThrew("RangeError")
        ELSE LET maxLen == MaxLineLength(lines)
             IN  Resolved(<<
                    Join([i \in 1..Len(lines) |->
                            PadTo(lines[i][1], maxLen) \o <<SP, "/", "/", SP>> \o ToText(lines[i][2])],
                         EOL),
                    Join(descriptionLines, EOL)>>)

\* regExp is a pattern without the g and y flags: test(line) and then
\* exec(line) or match(line) give the same match, groups[k] its k-th group
getEnumsRegExp(fileContent, regExp) ==
    EnumsRegExpClose(MatchedResults(splitByEOL(fileContent, TRUE), regExp))

getEnumsWithDescriptionRegExp(fileContent, regExp, parseDescriptionFunc) ==
    EnumsWithDescriptionRegExpClose(MatchedResults(splitByEOL(fileContent, TRUE), regExp),
                                    parseDescriptionFunc)

-----------------------------------------------------------------------------
(* Inputs of the splitByEOL calls *)

MaxLines == 3

\* logical lines, none containing CR or LF: empty, whitespace-only, text
LogicalLines == {<<>>, <<SP>>, <<"A">>}

Separators == {<<LF>>, <<CR>>, <<CR, LF>>}

SeqsUpTo(S, n) == UNION {[1..k -> S] : k \in 0..n}

RECURSIVE JoinSeps(_, _)
\* the lines joined with seps[k] between line k and line k+1
JoinSeps(lines, seps) ==
    IF Len(lines) = 0 THEN <<>>
    ELSE IF Len(lines) = 1 THEN lines[1]
    ELSE lines[1] \o seps[1] \o JoinSeps(Tail(lines), Tail(seps))

SplitIdle == [state |-> "idle"]

SplitCall(lines, seps, content, ignoreEmptyLines) ==
    [state |-> "called", lines |-> lines, seps |-> seps, content |-> content,
     ignoreEmptyLines |-> ignoreEmptyLines]

\* a call with null or undefined, or with the text of up to maxLines lines
SplitInput(call, maxLines) ==
    \/ \E c \in {JsNull, JsUndefined}, f \in BOOLEAN :
            call = SplitCall(<<>>, <<>>, c, f)
    \/ \E k \in 1..maxLines :
        \E ls \in [1..k -> LogicalLines], ss \in [1..(k - 1) -> Separators], f \in BOOLEAN :
            call = SplitCall(ls, ss, JoinSeps(ls, ss), f)

\* the call returns: there is no throw in splitByEOL
SplitReturn ==
    /\ split.state = "called"
    /\ split' = [state |-> "returned", lines |-> split.lines, seps |-> split.seps,
                 content |-> split.content, ignoreEmptyLines |-> split.ignoreEmptyLines,
                 result |-> splitByEOL(split.content, split.ignoreEmptyLines)]
    /\ UNCHANGED <<EOL, synth, batch, match, index, stream>>

SynthIdle == [state |-> "idle"]

MatchIdle == [state |-> "idle"]

IndexIdle == [state |-> "idle"]

StreamIdle == [state |-> "idle"]

BatchIdle == [state |-> "idle"]

-----------------------------------------------------------------------------
(* Inputs of the synthesizer calls *)

MaxRecords == 2

\* the k-th line of the file: k times "A", so that the lines differ
SourceLine(k) == Repeat("A", k)

SourceLines(n) == [k \in 1..n |-> SourceLine(k)]

\* (name, value) of a result; the member lines are 12, 13, 14 and 15 long
NameValuePairs ==
    {<<<<"A">>, <<"A">>>>, <<<<"A">>, <<"B", "B">>>>,
     <<<<"B", "B">>, <<"B", "B">>>>, <<<<"B", "B">>, <<"B", "B", "B">>>>}

\* comment of a result: absent, empty, text
SampleComments == {JsUndefined, <<>>, <<"c">>, <<"d", "d">>}

\* what a strategy (line: string) => ParseResult | null may return
ParseResults ==
    {[matched |-> TRUE, name |-> nv[1], value |-> nv[2], comment |-> c]
        : nv \in NameValuePairs, c \in SampleComments}
    \cup {NoMatch}

\* what a pattern may match: group 1 the value, group 2 the rest, which is
\* undefined when the group took no part in the match
PatternMatches ==
    {[matched |-> TRUE, groups |-> <<g1, g2>>]
        : g1 \in {<<"A">>, <<"B", "B">>}, g2 \in {JsUndefined, <<"c">>, <<"d", "d">>}}
    \cup {NoMatch}

NoArray == [isNull |-> TRUE, arr |-> <<>>]
ArrayOf(a) == [isNull |-> FALSE, arr |-> a]

\* parseDescriptionFunc: not given, returning null, or returning arrays
SampleDescriptionFuncs ==
    {[absent |-> TRUE],
     [absent |-> FALSE, table |-> [src \in {JsUndefined, <<"c">>, <<"d", "d">>} |-> NoArray]],
     [absent |-> FALSE, table |->
        [src \in {JsUndefined, <<"c">>, <<"d", "d">>} |->
            IF src = <<"c">> THEN ArrayOf(<<<<"x">>, <<"y">>>>)
            ELSE IF src = JsUndefined THEN ArrayOf(<<>>)
            ELSE ArrayOf(<<<<"z", "z">>>>)]]}

SynthCall(fn, n, extract, pdf) ==
    [state |-> "pending", fn |-> fn, srcLines |-> SourceLines(n),
     fileContent |-> Join(SourceLines(n), <<LF>>),
     extract |-> extract, parseDescriptionFunc |-> pdf]

\* a call of one of the four synthesizers on a file of up to maxRecords lines
SynthInput(call, maxRecords) ==
    \E n \in 0..maxRecords :
        \/ \E fn \in {"getEnums", "getEnumsWithDescription"},
              f \in [{SourceLine(k) : k \in 1..n} -> ParseResults] :
                call = SynthCall(fn, n, f, [absent |-> TRUE])
        \/ \E f \in [{SourceLine(k) : k \in 1..n} -> PatternMatches] :
                call = SynthCall("getEnumsRegExp", n, f, [absent |-> TRUE])
        \/ \E f \in [{SourceLine(k) : k \in 1..n} -> PatternMatches],
              pdf \in SampleDescriptionFuncs :
                call = SynthCall("getEnumsWithDescriptionRegExp", n, f, pdf)

\* the promise the call returned, after the stream's 'close' handler ran
SynthPromise(c) ==
    CASE c.fn = "getEnums" -> getEnums(c.fileContent, c.extract)
      [] c.fn = "getEnumsWithDescription" -> getEnumsWithDescription(c.fileContent, c.extract)
      [] c.fn = "getEnumsRegExp" -> getEnumsRegExp(c.fileContent, c.extract)
      [] c.fn = "getEnumsWithDescriptionRegExp" ->
            getEnumsWithDescriptionRegExp(c.fileContent, c.extract, c.parseDescriptionFunc)

\* readable.on('close'): the handler calls resolve
SynthResolve ==
    /\ synth.state = "pending"
    /\ SynthPromise(synth).settled
    /\ synth' = [state |-> "resolved", fn |-> synth.fn, srcLines |-> synth.srcLines,
                 fileContent |-> synth.fileContent, extract |-> synth.extract,
                 parseDescriptionFunc |-> synth.parseDescriptionFunc,
                 value |-> SynthPromise(synth).value]
    /\ UNCHANGED <<EOL, split, batch, match, index, stream>>

\* readable.on('close'): the handler throws before it calls resolve
SynthCloseThrows ==
    /\ synth.state = "pending"
    /\ ~SynthPromise(synth).settled
    /\ synth' = [state |-> "closeThrew", fn |-> synth.fn, srcLines |-> synth.srcLines,
                 fileContent |-> synth.fileContent, extract |-> synth.extract,
                 parseDescriptionFunc |-> synth.parseDescriptionFunc,
                 thrown |-> SynthPromise(synth).thrown]
    /\ UNCHANGED <<EOL, split, batch, match, index, stream>>

InitSynth ==
    /\ EOL \in PlatformEOLs
    /\ split = SplitIdle
    /\ SynthInput(synth, MaxRecords)
    /\ batch = BatchIdle
    /\ match = MatchIdle
    /\ index = IndexIdle
    /\ stream = StreamIdle

NextSynth == SynthResolve \/ SynthCloseThrows

SpecSynth == InitSynth /\ [][NextSynth]_vars

InitSplit ==
    /\ EOL \in PlatformEOLs
    /\ SplitInput(split, MaxLines)
    /\ synth = SynthIdle
    /\ batch = BatchIdle
    /\ match = MatchIdle
    /\ index = IndexIdle
    /\ stream = StreamIdle

NextSplit == SplitReturn

SpecSplit == InitSplit /\ [][NextSplit]_vars

-----------------------------------------------------------------------------
(* Parser.parseName *)

NameChars ==
    {"A", "B", "C", "D", "E", "F", "G", "H", "I", "J", "K", "L", "M", "N", "O", "P", "Q",
     "R", "S", "T", "U", "V", "W", "X", "Y", "Z",
     "0", "1", "2", "3", "4", "5", "6", "7", "8", "9", "_"}

\* the characters of \s a line can hold
SpaceChars == {SP, "<TAB>"}

RECURSIVE RunLength(_, _, _)
\* the length of the longest run of characters of S in line from position i
RunLength(line, i, S) ==
    IF i > Len(line) \/ line[i] \notin S THEN 0 ELSE 1 + RunLength(line, i + 1, S)

\* line.match(/^\s*?([A-Z0-9_]+)[;,]?$/): white space, the name, at most one
\* of ; and , and the end of the line; name and value are group 1
parseName(line) ==
    LET ws == RunLength(line, 1, SpaceChars)
        nm == RunLength(line, ws + 1, NameChars)
        rest == SubSeq(line, ws + nm + 1, Len(line))
    IN  IF nm >= 1 /\ rest \in {<<>>, <<";">>, <<",">>}
        THEN [matched |-> TRUE,
              name |-> SubSeq(line, ws + 1, ws + nm),
              value |-> SubSeq(line, ws + 1, ws + nm),
              comment |-> JsUndefined]
        ELSE NoMatch

-----------------------------------------------------------------------------
(* The quoted-argument strategies of Parser *)

DQ == "<DQ>"     \* the double quote
SQ == "'"
BS == "<BS>"     \* the backslash

QuoteChars == {DQ, SQ}

MinOf(S) == CHOOSE x \in S : \A y \in S : x <= y

NoMatchArray == [matched |-> FALSE]

MatchArray(groups) == [matched |-> TRUE, groups |-> groups]

\* ([A-Z0-9_]+)\s*\( tried at position p: the position of the parenthesis, or
\* 0 when the prefix does not match there. A shorter name or less white
\* space never helps, the next character being no "(".
OpenParen(line, p) ==
    LET nm == RunLength(line, p, NameChars)
        o == p + nm + RunLength(line, p + nm, SpaceChars)
    IN  IF nm >= 1 /\ o <= Len(line) /\ line[o] = "(" THEN o ELSE 0

NameAt(line, p) == SubSeq(line, p, p + RunLength(line, p, NameChars) - 1)

\* (?<!\\)\q after the quote at position t: the positions of a quote of the
\* same kind that no backslash precedes
ClosingQuotes(line, t) ==
    {c \in (t + 1)..Len(line) : line[c] = line[t] /\ line[c - 1] # BS}

\* the match of an unanchored pattern: the one at the leftmost position
Leftmost(line, matchAt) ==
    LET starts == {p \in 1..Len(line) : matchAt[p].matched}
    IN  IF starts = {} THEN NoMatchArray ELSE matchAt[MinOf(starts)]

\* /([A-Z0-9_]+)\s*\([^)]*\)/
REG_EXP_NAME_VALUE(line) ==
    Leftmost(line, [p \in 1..Len(line) |->
        LET o == OpenParen(line, p)
        IN  IF o # 0 /\ \E j \in (o + 1)..Len(line) : line[j] = ")"
            THEN MatchArray(<<NameAt(line, p)>>)
            ELSE NoMatchArray])

\* /([A-Z0-9_]+)\s*\((['"])(.*?)(?<!\\)\2/: group 3 is lazy, it ends at the
\* first closing quote
REG_EXP_NAME_COMMENT(line) ==
    Leftmost(line, [p \in 1..Len(line) |->
        LET o == OpenParen(line, p)
            t == o + 1
        IN  IF o # 0 /\ t <= Len(line) /\ line[t] \in QuoteChars
                     /\ ClosingQuotes(line, t) # {}
            THEN MatchArray(<<NameAt(line, p), <<line[t]>>,
                              SubSeq(line, t + 1, MinOf(ClosingQuotes(line, t)) - 1)>>)
            ELSE NoMatchArray])

\* the position of the quote that ,\s*(['"]) reaches from the comma at k, or 0
QuoteAfterComma(line, k) ==
    LET t == k + 1 + RunLength(line, k + 1, SpaceChars)
    IN  IF line[k] = "," /\ t <= Len(line) /\ line[t] \in QuoteChars THEN t ELSE 0

\* /([A-Z0-9_]+)\s*\((.+),\s*(['"])(.*?)(?<!\\)\3/: group 2 is greedy, it
\* runs to the last comma that a quoted text follows; group 4 is lazy
REG_EXP_NAME_VALUE_COMMENT(line) ==
    Leftmost(line, [p \in 1..Len(line) |->
        LET o == OpenParen(line, p)
            commas == {k \in (o + 2)..Len(line) :
                          /\ QuoteAfterComma(line, k) # 0
                          /\ ClosingQuotes(line, QuoteAfterComma(line, k)) # {}}
        IN  IF o # 0 /\ commas # {}
            THEN LET k == MaxOf(commas)
                     t == QuoteAfterComma(line, k)
                 IN  MatchArray(<<NameAt(line, p), SubSeq(line, o + 1, k - 1), <<line[t]>>,
                                  SubSeq(line, t + 1, MinOf(ClosingQuotes(line, t)) - 1)>>)
            ELSE NoMatchArray])

\* /([A-Z0-9_]+)\s*\((['"])(.*?)(?<!\\)\2,\s*(.+)/: group 3 is lazy, it ends
\* at the first closing quote that a comma and one more character follow;
\* \s* gives back its last character when nothing else is left for (.+)
REG_EXP_NAME_COMMENT_VALUE(line) ==
    Leftmost(line, [p \in 1..Len(line) |->
        LET o == OpenParen(line, p)
            t == o + 1
            closing == IF o # 0 /\ t <= Len(line) /\ line[t] \in QuoteChars
                       THEN {c \in ClosingQuotes(line, t) :
                                c + 2 <= Len(line) /\ line[c + 1] = ","}
                       ELSE {}
        IN  IF closing # {}
            THEN LET c == MinOf(closing)
                     v == c + 2 + RunLength(line, c + 2, SpaceChars)
                 IN  MatchArray(<<NameAt(line, p), <<line[t]>>, SubSeq(line, t + 1, c - 1),
                                  SubSeq(line, IF v <= Len(line) THEN v ELSE Len(line),
                                         Len(line))>>)
            ELSE NoMatchArray])

\* a ParseResult; ...(c && {comment: c}) leaves the comment out when c is ''
ParseResult(name, value, comment) ==
    [matched |-> TRUE, name |-> name, value |-> value, comment |-> comment]

SpreadComment(c) == IF Truthy(c) THEN c ELSE JsUndefined

parseNameValue(line) ==
    LET regArr == REG_EXP_NAME_VALUE(line)
    IN  IF ~regArr.matched THEN NoMatch
        ELSE ParseResult(regArr.groups[1], regArr.groups[1], JsUndefined)

parseNameComment(line) ==
    LET regArr == REG_EXP_NAME_COMMENT(line)
    IN  IF ~regArr.matched THEN NoMatch
        ELSE ParseResult(regArr.groups[1], regArr.groups[1], regArr.groups[3])

\* the strategy made to return group 2, the positional value, as value
parseNameValueComment_rawValue(line) ==
    LET regArr == REG_EXP_NAME_VALUE_COMMENT(line)
    IN  IF ~regArr.matched THEN NoMatch
        ELSE ParseResult(regArr.groups[1], regArr.groups[2], SpreadComment(regArr.groups[4]))

parseNameValueComment(line) ==
    LET regArr == REG_EXP_NAME_VALUE_COMMENT(line)
    IN  IF ~regArr.matched THEN NoMatch
        ELSE ParseResult(regArr.groups[1], regArr.groups[1], SpreadComment(regArr.groups[4]))

\* the strategy made to return group 4, the positional value, as value
parseNameCommentValue_rawValue(line) ==
    LET regArr == REG_EXP_NAME_COMMENT_VALUE(line)
    IN  IF ~regArr.matched THEN NoMatch
        ELSE ParseResult(regArr.groups[1], regArr.groups[4], SpreadComment(regArr.groups[3]))

parseNameCommentValue(line) ==
    LET regArr == REG_EXP_NAME_COMMENT_VALUE(line)
    IN  IF ~regArr.matched THEN NoMatch
        ELSE ParseResult(regArr.groups[1], regArr.groups[1], SpreadComment(regArr.groups[3]))

-----------------------------------------------------------------------------
(* Inputs of the strategy calls *)

MaxArgLen == 5

\* the characters of the argument list: both quotes, the backslash, a plain
\* character and the comma
ArgChars == {DQ, SQ, BS, "b", ","}

\* lines of other shapes: bare names, white space, parentheses, lower case
OtherLines ==
    {<<"A">>, <<SP, "A", "_", "1", ";">>, <<"A", ",">>, <<"a">>, <<"A", SP, "B">>,
     <<"A", "(", ")">>, <<"A", SP, "(", "b", ")">>, <<"A", "(", "b">>, <<"(", "b", ")">>,
     <<"a", "B", "(", "b", ",", SP, DQ, "c", DQ, ")", ";">>,
     <<SP, "A", SP, "(", "b", ",", "<TAB>", SQ, "c", SQ, ",", "b", ")">>,
     <<"A", "(", SQ, "c", SQ, ",", SP, ")">>,
     <<"A", "(", DQ, "c", SP, "B", "(", SQ, "d", SQ, ")">>}

Strategies ==
    {"parseName", "parseNameValue", "parseNameComment", "parseNameValueComment",
     "parseNameCommentValue"}

\* info.parseFunc(line), parseFunc one of the built-in strategies
Strategy(strategy, line) ==
    CASE strategy = "parseName" -> parseName(line)
      [] strategy = "parseNameValue" -> parseNameValue(line)
      [] strategy = "parseNameComment" -> parseNameComment(line)
      [] strategy = "parseNameValueComment" -> parseNameValueComment(line)
      [] strategy = "parseNameCommentValue" -> parseNameCommentValue(line)

MatchCall(strategy, line) == [state |-> "called", strategy |-> strategy, line |-> line]

\* a call of a built-in strategy on A( and up to maxArgLen argument
\* characters, or on one of the other lines
MatchInput(call, maxArgLen) ==
    \E strategy \in Strategies :
        \/ \E n \in 0..maxArgLen :
              \E args \in [1..n -> ArgChars] :
                  call = MatchCall(strategy, <<"A", "(">> \o args)
        \/ \E line \in OtherLines : call = MatchCall(strategy, line)

StrategyReturn ==
    /\ match.state = "called"
    /\ match' = [state |-> "returned", strategy |-> match.strategy, line |-> match.line,
                 result |-> Strategy(match.strategy, match.line)]
    /\ UNCHANGED <<EOL, split, synth, batch, index, stream>>

InitMatch ==
    /\ EOL \in PlatformEOLs
    /\ split = SplitIdle
    /\ synth = SynthIdle
    /\ batch = BatchIdle
    /\ MatchInput(match, MaxArgLen)
    /\ index = IndexIdle
    /\ stream = StreamIdle

NextMatch == StrategyReturn

SpecMatch == InitMatch /\ [][NextMatch]_vars

-----------------------------------------------------------------------------
(* Parser.generateIndex *)

MaxNames == 2

\* enum names of jobs and of extra enums
SampleEnumNames == {<<"X">>, <<"Y">>, <<"Z", "2">>}

IndexBanner ==
    <<LF, "/**", LF, " * IMPORTANT NOTE!", LF, " * This file is generated automatically", LF,
      " * Any changes will be overwritten", LF, " */", LF>>

\* `export * from './${enumName}';${EOL}`
ReExportLine(enumName) == <<"export * from './">> \o enumName \o <<"';">> \o EOL

RECURSIVE ReExportLines(_)
ReExportLines(enumNames) ==
    IF enumNames = <<>> THEN <<>>
    ELSE ReExportLine(Head(enumNames)) \o ReExportLines(Tail(enumNames))

\* the index text with the extra enums put before the jobs' enums
generateIndex_extrasFirst(enumNames, extraEnums) ==
    IndexBanner \o ReExportLines(extraEnums) \o ReExportLines(enumNames)

\* fileContent of generateIndex: the banner, the for loop over parseInfos,
\* then extraEnums.forEach; enumNames is info.enumName of each job
generateIndex(enumNames, extraEnums) ==
    IndexBanner \o ReExportLines(enumNames) \o ReExportLines(extraEnums)

IndexCall(enumNames, extraEnums) ==
    [state |-> "write", enumNames |-> enumNames, extraEnums |-> extraEnums,
     written |-> <<>>, log |-> <<>>, error |-> JsUndefined]

IndexInput(call, maxNames) ==
    \E n, m \in 0..maxNames :
        \E enumNames \in [1..n -> SampleEnumNames], extraEnums \in [1..m -> SampleEnumNames] :
            call = IndexCall(enumNames, extraEnums)

\* await Parser.fs.writeFile('index', destPath, fileContent)
IndexWriteFile ==
    /\ index.state = "write"
    /\ \/ index' = [index EXCEPT
                !.state = "log",
                !.written = Append(@, [name |-> <<"index", ".ts">>,
                                       text |-> generateIndex(index.enumNames,
                                                              index.extraEnums)])]
       \/ index' = [index EXCEPT !.state = "rejected", !.error = <<"write error">>]
    /\ UNCHANGED <<EOL, split, synth, batch, match, stream>>

\* Parser.log.successGeneration('[index.ts]')
IndexSuccessGeneration ==
    /\ index.state = "log"
    /\ index' = [index EXCEPT !.state = "resolved", !.log = Append(@, <<"[index.ts]">>)]
    /\ UNCHANGED <<EOL, split, synth, batch, match, stream>>

InitIndex ==
    /\ EOL \in PlatformEOLs
    /\ split = SplitIdle
    /\ synth = SynthIdle
    /\ batch = BatchIdle
    /\ match = MatchIdle
    /\ IndexInput(index, MaxNames)
    /\ stream = StreamIdle

NextIndex == IndexWriteFile \/ IndexSuccessGeneration

SpecIndex == InitIndex /\ [][NextIndex]_vars

-----------------------------------------------------------------------------
(* The pattern-driven synthesizers on a RegExp object with flags *)

MaxStreamLines == 2

\* the lines of the files: one name; a name, a ; and a name; no name; a name
\* after another character
StreamLines == {<<"A", "B">>, <<"A", ";", "B">>, <<"a">>, <<"b", "A">>}

\* 1 when the character of line at position j is ";", else 0
SemicolonAt(line, j) == IF j <= Len(line) /\ line[j] = ";" THEN 1 ELSE 0

\* the match at index i of a name of n characters and of semi semicolons:
\* its end, its text and its groups
PatternMatch(line, i, n, semi) ==
    [matched |-> TRUE, end |-> i + n + semi, text |-> SubSeq(line, i + 1, i + n + semi),
     groups |-> <<SubSeq(line, i + 1, i + n), IF semi = 1 THEN <<";">> ELSE JsUndefined>>]

PatternOfName(line, i, n) ==
    IF n = 0 THEN NoMatchArray ELSE PatternMatch(line, i, n, SemicolonAt(line, i + n + 1))

\* the caller's pattern /([A-Z0-9_]+)(;)?/ tried at index i of line, indices
\* counted from 0
PatternAt(line, i) == PatternOfName(line, i, RunLength(line, i + 1, NameChars))

\* the RegExp object of the job: its flags g and y and its lastIndex
RegExpObject(global, sticky, lastIndex) ==
    [global |-> global, sticky |-> sticky, lastIndex |-> lastIndex]

\* the indices from which the pattern matches: those from index from on, and
\* with the y flag index from only
MatchStarts(regExp, line, from) ==
    {i \in from..(Len(line) - 1) : (regExp.sticky => i = from) /\ PatternAt(line, i).matched}

FirstMatch(line, at) == IF at = {} THEN NoMatchArray ELSE PatternAt(line, MinOf(at))

\* what exec returns and leaves in lastIndex: with g or y the end of the
\* match, and 0 when there is none
ExecResult(regExp, stateful, regArr) ==
    [regArr |-> regArr,
     regExp |-> [regExp EXCEPT !.lastIndex =
                    IF ~stateful THEN @ ELSE IF regArr.matched THEN regArr.end ELSE 0]]

\* regExp.exec(line), and regExp.test(line) as to lastIndex: with g or y the
\* search starts at lastIndex; without them lastIndex is not read or written
RegExpExec(regExp, line) ==
    ExecResult(regExp, regExp.global \/ regExp.sticky,
               FirstMatch(line, MatchStarts(regExp, line,
                    IF regExp.global \/ regExp.sticky THEN regExp.lastIndex ELSE 0)))

\* the indices at which a run of name characters starts
RunStarts(line) ==
    {i \in 0..(Len(line) - 1) :
        PatternAt(line, i).matched /\ (i = 0 \/ line[i] \notin NameChars)}

\* the k-th smallest element of S
Nth(S, k) == CHOOSE i \in S : Cardinality({j \in S : j < i}) = k - 1

\* the first k runs follow one another: the first starts at index 0 and each
\* next one where the match of the one before ended
Chained(line, starts, k) ==
    \A j \in 1..k :
        Nth(starts, j) = IF j = 1 THEN 0 ELSE PatternAt(line, Nth(starts, j - 1)).end

MatchCount(regExp, line, starts) ==
    IF regExp.sticky
    THEN Cardinality({k \in 1..Cardinality(starts) : Chained(line, starts, k)})
    ELSE Cardinality(starts)

MatchTexts(line, starts, count) == [k \in 1..count |-> PatternAt(line, Nth(starts, k)).text]

\* the texts of the successive matches of a pattern with the g flag, from
\* index 0: each search starts where the match before ended, so the matches
\* are the runs of name characters in the order of the line; with the y
\* flag too, only as long as each starts where the one before ended
AllMatches(regExp, line) ==
    MatchTexts(line, RunStarts(line), MatchCount(regExp, line, RunStarts(line)))

\* regArr of line.match(regExp) with the g flag: the texts of all matches, so
\* that regArr[1] and regArr[2] are the second and the third match
GlobalMatch(regExp, all) ==
    [regArr |->
        IF all = <<>> THEN NoMatchArray
        ELSE [matched |-> TRUE, end |-> 0, text |-> all[1],
              groups |-> <<IF Len(all) >= 2 THEN all[2] ELSE JsUndefined,
                           IF Len(all) >= 3 THEN all[3] ELSE JsUndefined>>],
     regExp |-> [regExp EXCEPT !.lastIndex = 0]]

\* line.match(regExp): regExp.exec(line) without the g flag; with it, all
\* matches from index 0, and lastIndex ends as 0
StringMatch(regExp, line) ==
    IF ~regExp.global THEN RegExpExec(regExp, line)
    ELSE GlobalMatch(regExp, AllMatches(regExp, line))

\* const value = regArr[1]: throws TypeError when regArr is null
Extracted(again) ==
    [threw |-> ~again.regArr.matched, regExp |-> again.regExp,
     regArr |-> IF again.regArr.matched THEN MatchArray(again.regArr.groups)
                ELSE NoMatchArray]

\* if (regExp.test(line)) the line is matched again, by regExp.exec(line) in
\* getEnums and by line.match(regExp) in getEnumsWithDescription
Tested(fn, line, tested) ==
    IF ~tested.regArr.matched
    THEN [threw |-> FALSE, regExp |-> tested.regExp, regArr |-> NoMatchArray]
    ELSE Extracted(IF fn = "getEnumsRegExp" THEN RegExpExec(tested.regExp, line)
                   ELSE StringMatch(tested.regExp, line))

\* the 'data' handler on one line
OnData(fn, regExp, line) == Tested(fn, line, RegExpExec(regExp, line))

\* the promise settled by the 'close' handler; parseDescriptionFunc not given
StreamPromise(st) ==
    IF st.fn = "getEnumsRegExp" THEN EnumsRegExpClose(st.results)
    ELSE EnumsWithDescriptionRegExpClose(st.results, [absent |-> TRUE])

\* the first call of a synthesizer with the job's RegExp object
StreamCall(fn, regExp, fileContent) ==
    [state |-> "data", fn |-> fn, regExp |-> regExp, fileContent |-> fileContent,
     srcLines |-> splitByEOL(fileContent, TRUE), k |-> 1, results |-> <<>>, seen |-> <<>>,
     run |-> 1, outputs |-> <<>>, thrown |-> "none"]

StreamInput(call, maxStreamLines) ==
    \E fn \in {"getEnumsRegExp", "getEnumsWithDescriptionRegExp"}, global, sticky \in BOOLEAN :
        \E n \in 0..maxStreamLines :
            \E lines \in [1..n -> StreamLines] :
                call = StreamCall(fn, RegExpObject(global, sticky, 0), Join(lines, <<LF>>))

StreamLine == stream.srcLines[stream.k]

\* the stream after the 'data' handler ran on line
AfterData(st, line, data) ==
    IF data.threw
    THEN [st EXCEPT !.state = "dataThrew", !.regExp = data.regExp, !.thrown = "TypeError"]
    ELSE [st EXCEPT
            !.regExp = data.regExp,
            !.k = @ + 1,
            !.results = IF data.regArr.matched THEN Append(@, data.regArr) ELSE @,
            !.seen = Append(@, [line |-> line, regArr |-> data.regArr])]

\* readable.on('data'): the handler returns
StreamData ==
    /\ stream.state = "data"
    /\ stream.k <= Len(stream.srcLines)
    /\ ~OnData(stream.fn, stream.regExp, StreamLine).threw
    /\ stream' = AfterData(stream, StreamLine, OnData(stream.fn, stream.regExp, StreamLine))
    /\ UNCHANGED <<EOL, split, synth, batch, match, index>>

\* readable.on('data'): the handler throws; no 'close' handler runs resolve
StreamDataThrows ==
    /\ stream.state = "data"
    /\ stream.k <= Len(stream.srcLines)
    /\ OnData(stream.fn, stream.regExp, StreamLine).threw
    /\ stream' = AfterData(stream, StreamLine, OnData(stream.fn, stream.regExp, StreamLine))
    /\ UNCHANGED <<EOL, split, synth, batch, match, index>>

\* readable.on('close'): the handler calls resolve
StreamClose ==
    /\ stream.state = "data"
    /\ stream.k > Len(stream.srcLines)
    /\ StreamPromise(stream).settled
    /\ stream' = [stream EXCEPT
            !.state = IF stream.run = 1 THEN "resolved" ELSE "done",
            !.outputs = Append(@, StreamPromise(stream).value)]
    /\ UNCHANGED <<EOL, split, synth, batch, match, index>>

\* readable.on('close'): the handler throws before it calls resolve
StreamCloseThrows ==
    /\ stream.state = "data"
    /\ stream.k > Len(stream.srcLines)
    /\ ~StreamPromise(stream).settled
    /\ stream' = [stream EXCEPT !.state = "closeThrew",
                                !.thrown = StreamPromise(stream).thrown]
    /\ UNCHANGED <<EOL, split, synth, batch, match, index>>

\* the synthesizer called again with the same fileContent and the same
\* RegExp object, as for a second generation from the same job
StreamRunAgain ==
    /\ stream.state = "resolved"
    /\ stream' = [stream EXCEPT !.state = "data", !.run = 2, !.k = 1, !.results = <<>>]
    /\ UNCHANGED <<EOL, split, synth, batch, match, index>>

InitStream ==
    /\ EOL \in PlatformEOLs
    /\ split = SplitIdle
    /\ synth = SynthIdle
    /\ batch = BatchIdle
    /\ match = MatchIdle
    /\ index = IndexIdle
    /\ StreamInput(stream, MaxStreamLines)

NextStream ==
    \/ StreamData
    \/ StreamDataThrows
    \/ StreamClose
    \/ StreamCloseThrows
    \/ StreamRunAgain

SpecStream == InitStream /\ [][NextStream]_vars

-----------------------------------------------------------------------------
(* ParserContent *)

Banner ==
    <<LF, "/**", LF, " * IMPORTANT NOTE!", LF, " * This file is generated automatically", LF,
      " * Any changes will be overwritten", LF, " */", LF, " ", LF>>

createCommentContent(comment) ==
    IF ~Truthy(comment) THEN <<>>
    ELSE <<LF, "/**", LF, " * ">> \o comment \o <<LF, " */">>

createDescriptionContent(descriptionName, content) ==
    IF ~Truthy(descriptionName) THEN <<>>
    ELSE <<LF, "export enum ">> \o descriptionName \o <<" {", LF>> \o content \o <<LF, "}">>

createFileContent(enumName, enumContent, commentContent, descriptionContent) ==
    Banner \o commentContent \o <<LF, LF, "export enum ">> \o enumName \o <<" {", LF>>
    \o enumContent \o <<LF, "}", LF, LF>> \o descriptionContent \o <<LF>>

-----------------------------------------------------------------------------
(* Parser.parseEnums and Parser.parseEnumsWithDescription *)

MaxJobs == 2

\* the lines the source files of the batch are made of
BatchLines == {<<SP>>, <<"a">>, <<"A">>, <<SP, "B", "B", ";">>}

\* what readFile may give: an empty file, a file no line of which matches,
\* a file with two members and mixed line ends
BatchContents ==
    {<<>>,
     <<SP, LF, "a", LF>>,
     <<"A", CR, LF, LF, SP, "B", "B", ";", CR>>}

\* a caller's strategy that gives comments
CommentStrategy ==
    [l \in BatchLines |->
        IF l = <<"A">>
        THEN [matched |-> TRUE, name |-> <<"A">>, value |-> <<"1">>, comment |-> <<"c">>]
        ELSE IF l = <<SP, "B", "B", ";">>
        THEN [matched |-> TRUE, name |-> <<"B", "B">>, value |-> <<"B", "B">>,
              comment |-> JsUndefined]
        ELSE NoMatch]

\* a caller's pattern, /^\s*([A-Z]+)(;)?$/ on the lines of the batch
NamePattern ==
    [l \in BatchLines |->
        IF l = <<"A">>
        THEN [matched |-> TRUE, groups |-> <<<<"A">>, JsUndefined>>]
        ELSE IF l = <<SP, "B", "B", ";">>
        THEN [matched |-> TRUE, groups |-> <<<<"B", "B">>, <<";">>>>]
        ELSE NoMatch]

\* ParseInfo with parseFunc
StrategyJobs ==
    {[srcFileName |-> <<"F">>, srcDirectory |-> <<"d">>, enumName |-> <<"E">>,
      descriptionEnumName |-> <<"D">>, comment |-> <<"k">>,
      extract |-> [l \in BatchLines |-> parseName(l)],
      parseDescriptionFunc |-> [absent |-> TRUE]],
     [srcFileName |-> <<"G">>, srcDirectory |-> <<"d">>, enumName |-> <<"H">>,
      descriptionEnumName |-> JsUndefined, comment |-> JsUndefined,
      extract |-> CommentStrategy,
      parseDescriptionFunc |-> [absent |-> TRUE]],
     [srcFileName |-> <<"F">>, srcDirectory |-> <<>>, enumName |-> <<"E">>,
      descriptionEnumName |-> JsUndefined, comment |-> <<>>,
      extract |-> CommentStrategy,
      parseDescriptionFunc |-> [absent |-> TRUE]]}

\* ParseInfo with regExp; srcDirectory stands for the batch's srcPath
PatternJobs(srcPath) ==
    {[srcFileName |-> <<"F">>, srcDirectory |-> srcPath, enumName |-> <<"E">>,
      descriptionEnumName |-> <<"D">>, comment |-> <<"k">>,
      extract |-> NamePattern,
      parseDescriptionFunc |-> [absent |-> TRUE]],
     [srcFileName |-> <<"G">>, srcDirectory |-> srcPath, enumName |-> <<"H">>,
      descriptionEnumName |-> JsUndefined, comment |-> JsUndefined,
      extract |-> NamePattern,
      parseDescriptionFunc |->
        [absent |-> FALSE,
         table |-> [src \in {JsUndefined, <<";">>} |->
                        IF src = <<";">> THEN ArrayOf(<<<<"s">>>>) ELSE NoArray]]]}

\* no call of readFile or writeFile has failed
NothingRaised == [job |-> 0, op |-> "none", error |-> "none"]

BatchCall(fn, variant, parseInfos) ==
    [state |-> IF parseInfos = <<>> THEN "resolved" ELSE "find",
     fn |-> fn, variant |-> variant, parseInfos |-> parseInfos, i |-> 1,
     parsedFileContent |-> <<>>, enums |-> <<>>,
     written |-> <<>>, trace |-> <<>>, error |-> "none", notFound |-> 0,
     tree |-> <<>>, foundFilePath |-> JsNull, fsOps |-> <<>>, raised |-> NothingRaised]

\* a batch call on a list of up to maxJobs jobs
BatchInput(call, maxJobs) ==
    \E fn \in {"parseEnums", "parseEnumsWithDescription"} :
        \/ \E infos \in SeqsUpTo(StrategyJobs, maxJobs) :
                call = BatchCall(fn, "parseFunc", infos)
        \/ \E srcPath \in {<<"d">>, <<>>} :
            \E infos \in SeqsUpTo(PatternJobs(srcPath), maxJobs) \ {<<>>} :
                call = BatchCall(fn, "regExp", infos)

\* the statements of the loop body that wait for something, in program order
LoopBody == <<"find", "read", "getEnums", "write", "log">>

\* successGeneration called before writeFile
PcAfter_logBeforeWrite(pc) ==
    CASE pc = "find" -> "read"
      [] pc = "read" -> "getEnums"
      [] pc = "getEnums" -> "log"
      [] pc = "log" -> "write"
      [] pc = "write" -> "find"

\* the statement after pc; after the last one the loop takes the next job
PcAfter(pc) ==
    LET k == CHOOSE j \in 1..Len(LoopBody) : LoopBody[j] = pc
    IN  IF k = Len(LoopBody) THEN LoopBody[1] ELSE LoopBody[k + 1]

\* the check of the discovery's result left out
FoundCheck_absent(foundFilePath) == "continue"

\* if (!foundFilePath) throw new Error(`File ... is not found`)
FoundCheck(foundFilePath) == IF ~Truthy(foundFilePath) THEN "throw" ELSE "continue"

\* the loop goes on from the statement that completed
Advance(b) ==
    IF PcAfter(b.state) # LoopBody[1] THEN [b EXCEPT !.state = PcAfter(b.state)]
    ELSE IF b.i = Len(b.parseInfos) THEN [b EXCEPT !.state = "resolved"]
    ELSE [b EXCEPT !.state = LoopBody[1], !.i = b.i + 1,
                   !.parsedFileContent = <<>>, !.enums = <<>>, !.foundFilePath = JsNull]

\* the async function throws: the promise of the batch call rejects
Reject(b, error) == [b EXCEPT !.state = "rejected", !.error = error]

Event(kind, job) == [kind |-> kind, job |-> job]

Info == batch.parseInfos[batch.i]

\* an awaited promise rejected with an error the loop body has no handler for
AwaitRejected_wrapped(b, error) == Reject(b, "Generation failed")

\* await of a promise that rejects, in a loop body without try/catch: the
\* batch call rejects with the same error
AwaitRejected(b, error) == Reject(b, error)

\* a call of readdir, readFile or writeFile made for the job
FsOp(op, job, path, failed) == [op |-> op, job |-> job, path |-> path, failed |-> failed]

PathJoin(dir, name) == dir \o <<"/">> \o name

Dirent(name, kind) == [name |-> name, kind |-> kind]

\* what readdir gives for a directory: its entries, or an error
Listing(entries) == [failed |-> FALSE, entries |-> entries]

ReaddirError == "EACCES: scandir"

ReaddirFails == [failed |-> TRUE, error |-> ReaddirError]

\* directory trees under the source directory d, each path with what readdir
\* gives there: the files in d; the files in d/b, F in d being no regular
\* file and d/a unreadable; no file, d/a unreadable; d unreadable; d empty
SampleTrees ==
    {<<"d">> :> Listing(<<Dirent(<<"G">>, "file"), Dirent(<<"F">>, "file")>>),
     (<<"d">> :> Listing(<<Dirent(<<"F">>, "other"), Dirent(<<"a">>, "dir"),
                          Dirent(<<"b">>, "dir")>>))
        @@ (<<"d", "/", "a">> :> ReaddirFails)
        @@ (<<"d", "/", "b">> :> Listing(<<Dirent(<<"F">>, "file"), Dirent(<<"G">>, "file")>>)),
     (<<"d">> :> Listing(<<Dirent(<<"a">>, "dir"), Dirent(<<"b">>, "dir")>>))
        @@ (<<"d", "/", "a">> :> ReaddirFails)
        @@ (<<"d", "/", "b">> :> Listing(<<>>)),
     <<"d">> :> ReaddirFails,
     <<"d">> :> Listing(<<>>)}

\* findFilePath returned foundFilePath after the calls fsOps
FindResult(foundFilePath, fsOps) ==
    [threw |-> FALSE, error |-> "none", foundFilePath |-> foundFilePath, fsOps |-> fsOps]

FindThrew(error, fsOps) ==
    [threw |-> TRUE, error |-> error, foundFilePath |-> JsNull, fsOps |-> fsOps]

\* the check of srcPath put inside the try block
SrcPathMissing_caught(srcPath) == FindResult(JsNull, <<>>)

\* if (!srcPath) throw new Error(...), before the try block
SrcPathMissing(srcPath) == FindThrew("Doesn't specify the source directory", <<>>)

\* the catch block left out
ReaddirCaught_rethrown(op) == FindThrew(ReaddirError, <<op>>)

\* catch (err) { console.error(err); } return null;
ReaddirCaught(op) == FindResult(JsNull, <<op>>)

RECURSIVE findFilePath(_, _, _), FindInDirs(_, _, _, _)
\* ParserIO.findFilePath: the file in srcPath, or else in the first of its
\* directories, taken in the order of the listing, that holds it
findFilePath(tree, parseFileName, srcPath) ==
    IF ~Truthy(srcPath) THEN SrcPathMissing(srcPath)
    ELSE LET dirEntries == tree[srcPath]
             op == FsOp("readdir", 0, srcPath, dirEntries.failed)
         IN  IF dirEntries.failed THEN ReaddirCaught(op)
             ELSE LET files == SelectSeq(dirEntries.entries, LAMBDA de : de.kind = "file")
                      dirs == SelectSeq(dirEntries.entries, LAMBDA de : de.kind = "dir")
                      fileIndex == {k \in 1..Len(files) : files[k].name = parseFileName}
                      sub == FindInDirs(tree, parseFileName, srcPath, dirs)
                  IN  IF fileIndex # {}
                      THEN FindResult(PathJoin(srcPath, files[MinOf(fileIndex)].name), <<op>>)
                      ELSE FindResult(sub.foundFilePath, <<op>> \o sub.fsOps)

\* for (const de of dirs): the recursive calls; an error thrown by one is
\* caught by the try block around the loop
FindInDirs(tree, parseFileName, srcPath, dirs) ==
    IF dirs = <<>> THEN FindResult(JsNull, <<>>)
    ELSE LET found == findFilePath(tree, parseFileName, PathJoin(srcPath, Head(dirs).name))
             rest == FindInDirs(tree, parseFileName, srcPath, Tail(dirs))
         IN  IF found.threw THEN FindResult(JsNull, found.fsOps)
             ELSE IF found.foundFilePath # JsNull THEN found
             ELSE FindResult(rest.foundFilePath, found.fsOps \o rest.fsOps)

\* await Parser.fs.findFilePath(info.srcFileName, info.srcDirectory) and the
\* check of its result, the directory tree being as it is at that time
FindFilePath ==
    /\ batch.state = "find"
    /\ \E tree \in SampleTrees :
        LET found == findFilePath(tree, Info.srcFileName, Info.srcDirectory)
            started == [batch EXCEPT
                !.trace = Append(@, Event("find", batch.i)),
                !.tree = tree,
                !.fsOps = @ \o [k \in 1..Len(found.fsOps) |->
                                    [found.fsOps[k] EXCEPT !.job = batch.i]]]
        IN  IF found.threw
            THEN batch' = AwaitRejected(started, found.error)
            ELSE IF FoundCheck(found.foundFilePath) = "throw"
            THEN batch' = Reject([started EXCEPT !.notFound = batch.i], "File is not found")
            ELSE batch' = Advance(
                    [started EXCEPT
                        !.foundFilePath = found.foundFilePath,
                        !.notFound = IF found.foundFilePath = JsNull /\ @ = 0
                                     THEN batch.i ELSE @])
    /\ UNCHANGED <<EOL, split, synth, match, index, stream>>

\* errors readFile and writeFile reject with
ReadErrors == {"EACCES: open", "EISDIR: read"}

WriteErrors == {"EACCES: open", "ENOSPC: write"}

\* the call op(path) of the job rejected with error
Raised(b, op, path, error) ==
    [b EXCEPT !.raised = [job |-> b.i, op |-> op, error |-> error],
              !.fsOps = Append(@, FsOp(op, b.i, path, TRUE))]

\* (await readFile(foundFilePath)).toString()
ReadFile ==
    /\ batch.state = "read"
    /\ \/ \E content \in BatchContents :
            batch' = Advance([batch EXCEPT
                !.parsedFileContent = content,
                !.fsOps = Append(@, FsOp("readFile", batch.i, batch.foundFilePath, FALSE))])
       \/ \E error \in ReadErrors :
            batch' = AwaitRejected(Raised(batch, "readFile", batch.foundFilePath, error), error)
    /\ UNCHANGED <<EOL, split, synth, match, index, stream>>

\* the promise of (getEnumsFunc ?? Parser.getEnums)(parsedFileContent, ...),
\* getEnumsFunc not given
EnumsPromise(b) ==
    LET info == b.parseInfos[b.i]
    IN  CASE b.fn = "parseEnums" /\ b.variant = "parseFunc" ->
                getEnums(b.parsedFileContent, info.extract)
          [] b.fn = "parseEnums" /\ b.variant = "regExp" ->
                getEnumsRegExp(b.parsedFileContent, info.extract)
          [] b.fn = "parseEnumsWithDescription" /\ b.variant = "parseFunc" ->
                getEnumsWithDescription(b.parsedFileContent, info.extract)
          [] b.fn = "parseEnumsWithDescription" /\ b.variant = "regExp" ->
                getEnumsWithDescriptionRegExp(b.parsedFileContent, info.extract,
                                              info.parseDescriptionFunc)

\* await of the synthesizer's promise, which resolved
GetEnums ==
    /\ batch.state = "getEnums"
    /\ EnumsPromise(batch).settled
    /\ batch' = Advance([batch EXCEPT !.enums =
            IF batch.fn = "parseEnums"
            THEN <<EnumsPromise(batch).value, <<>>>>
            ELSE EnumsPromise(batch).value])
    /\ UNCHANGED <<EOL, split, synth, match, index, stream>>

\* await of the synthesizer's promise, which never settles: the 'close'
\* handler threw.  The batch call stays pending, or the runtime ends the
\* process on the unhandled rejection.
GetEnumsNeverSettles ==
    /\ batch.state = "getEnums"
    /\ ~EnumsPromise(batch).settled
    /\ \E outcome \in {"pending", "processExit"} :
            batch' = [batch EXCEPT !.state = outcome, !.error = EnumsPromise(batch).thrown]
    /\ UNCHANGED <<EOL, split, synth, match, index, stream>>

\* Parser.content.createFileContent(...) of the loop body
FileContent(b) ==
    LET info == b.parseInfos[b.i]
    IN  createFileContent(
            info.enumName,
            b.enums[1],
            createCommentContent(info.comment),
            IF b.fn = "parseEnums" THEN <<>>
            ELSE createDescriptionContent(info.descriptionEnumName, b.enums[2]))

\* await Parser.fs.writeFile(info.enumName, destPath, fileContent)
WriteFile ==
    /\ batch.state = "write"
    /\ \/ batch' = Advance([batch EXCEPT
                !.written = Append(@, [name |-> Info.enumName \o <<".ts">>,
                                       text |-> FileContent(batch)]),
                !.trace = Append(@, Event("write", batch.i)),
                !.fsOps = Append(@, FsOp("writeFile", batch.i,
                                         Info.enumName \o <<".ts">>, FALSE))])
       \/ \E error \in WriteErrors :
            batch' = AwaitRejected(
                        Raised(batch, "writeFile", Info.enumName \o <<".ts">>, error), error)
    /\ UNCHANGED <<EOL, split, synth, match, index, stream>>

\* Parser.log.successGeneration(info.enumName)
SuccessGeneration ==
    /\ batch.state = "log"
    /\ batch' = Advance([batch EXCEPT !.trace = Append(@, Event("success", batch.i))])
    /\ UNCHANGED <<EOL, split, synth, match, index, stream>>

Init ==
    /\ EOL \in PlatformEOLs
    /\ split = SplitIdle
    /\ synth = SynthIdle
    /\ BatchInput(batch, MaxJobs)
    /\ match = MatchIdle
    /\ index = IndexIdle
    /\ stream = StreamIdle

Next ==
    \/ FindFilePath
    \/ ReadFile
    \/ GetEnums
    \/ GetEnumsNeverSettles
    \/ WriteFile
    \/ SuccessGeneration

Spec == Init /\ [][Next]_vars

-----------------------------------------------------------------------------
(* Properties of the batch *)

HasEvent(kind, job) ==
    \E p \in 1..Len(batch.trace) : batch.trace[p] = Event(kind, job)

\* C1: when discovery does not find the source file of job k, the batch call
\* rejects with the "not found" error, and neither a write nor a success
\* status happens for job k or a later job; with k = 1 nothing is written.
C1_MissingSourceAborts ==
    batch.notFound # 0 =>
        /\ batch.state = "rejected"
        /\ batch.error = "File is not found"
        /\ \A j \in batch.notFound..Len(batch.parseInfos) :
                ~HasEvent("write", j) /\ ~HasEvent("success", j)
        /\ Len(batch.written) < batch.notFound

C1_Witness ==
    /\ batch.state = "rejected"
    /\ batch.notFound = 2
    /\ Len(batch.written) = 1
    /\ HasEvent("success", 1)

\* C2: the jobs run in the order of the list, one at a time: when the
\* discovery of job j starts, every job before j has been written and has had
\* its success status emitted, in that order; a success status comes after
\* the write of its job.
C2_JobsInOrderNoOverlap ==
    \A p \in 1..Len(batch.trace) :
        LET e == batch.trace[p]
        IN  /\ e.kind = "find" =>
                \A i \in 1..(e.job - 1) :
                    \E p1, p2 \in 1..(p - 1) :
                        /\ p1 < p2
                        /\ batch.trace[p1] = Event("write", i)
                        /\ batch.trace[p2] = Event("success", i)
            /\ e.kind = "success" =>
                \E p1 \in 1..(p - 1) : batch.trace[p1] = Event("write", e.job)
            /\ \A q \in (p + 1)..Len(batch.trace) : batch.trace[q].job >= e.job

C2_Witness ==
    /\ batch.state = "resolved"
    /\ batch.trace = <<Event("find", 1), Event("write", 1), Event("success", 1),
                       Event("find", 2), Event("write", 2), Event("success", 2)>>

\* no line of the file the current job read matches the job's strategy
NoLineMatches(b) ==
    LET srcLines == splitByEOL(b.parsedFileContent, TRUE)
    IN  \A k \in 1..Len(srcLines) : ~b.parseInfos[b.i].extract[srcLines[k]].matched

\* C3: for a file no line of which matches, the synthesis gives empty bodies
\* and the job goes on to its write and its success status, in simple mode
\* and in description mode.
C3_NoMatchYieldsEmptyBody ==
    (/\ batch.state \in {"write", "log", "pending", "processExit"}
     /\ NoLineMatches(batch))
    => /\ batch.state \in {"write", "log"}
       /\ batch.enums = <<<<>>, <<>>>>

-----------------------------------------------------------------------------
(* Properties of splitByEOL *)

NonEmptyLine(line) == line # <<>>

\* "\r", an empty line, "\n" in a row reads as the single line end "\r\n"
EmptyLineBetweenCRandLF(lines, seps) ==
    \E k \in 2..(Len(lines) - 1) :
        lines[k] = <<>> /\ seps[k - 1] = <<CR>> /\ seps[k] = <<LF>>

SplitReturnedText == split.state = "returned" /\ Len(split.lines) >= 1

\* C8: with ignoreEmptyLines = true the result holds no empty string and holds
\* every non-empty line, the whitespace-only ones included, in order; with
\* ignoreEmptyLines = false the result is the content's lines, every empty
\* line at its original position.
C8_EmptyLinesDroppedOrKept ==
    SplitReturnedText =>
        IF split.ignoreEmptyLines
        THEN /\ \A i \in 1..Len(split.result) : split.result[i] # <<>>
             /\ split.result = SelectSeq(split.lines, NonEmptyLine)
        ELSE ~EmptyLineBetweenCRandLF(split.lines, split.seps) =>
                /\ Len(split.result) = Len(split.lines)
                /\ \A k \in 1..Len(split.lines) : split.result[k] = split.lines[k]

C8_Witness ==
    /\ split.state = "returned"
    /\ split.ignoreEmptyLines
    /\ split.lines = <<<<SP>>, <<>>, <<"A">>>>
    /\ split.result = <<<<SP>>, <<"A">>>>

\* C9 as stated: for either flag, every choice of separators between the same
\* logical lines gives the same result.
C9_AnySeparatorsSameResult ==
    SplitReturnedText =>
        \A seps2 \in [1..(Len(split.lines) - 1) -> Separators] :
            splitByEOL(JoinSeps(split.lines, seps2), split.ignoreEmptyLines) = split.result

\* C9 amended: with ignoreEmptyLines = true every choice of separators gives
\* the same result; with ignoreEmptyLines = false it does for every choice in
\* which no empty line stands between a "\r" and a "\n" separator.
C9_SeparatorsSameResultUnlessCRLFMerge ==
    SplitReturnedText =>
        \A seps2 \in [1..(Len(split.lines) - 1) -> Separators] :
            (\/ split.ignoreEmptyLines
             \/ /\ ~EmptyLineBetweenCRandLF(split.lines, split.seps)
                /\ ~EmptyLineBetweenCRandLF(split.lines, seps2))
            => splitByEOL(JoinSeps(split.lines, seps2), split.ignoreEmptyLines) = split.result

C9_Witness ==
    /\ split.state = "returned"
    /\ ~split.ignoreEmptyLines
    /\ split.lines = <<<<"A">>, <<>>, <<SP>>>>
    /\ split.seps = <<<<CR, LF>>, <<CR>>>>
    /\ split.result = split.lines

EmptyContents == {<<>>, JsNull, JsUndefined}

\* C10 as stated: empty, null or undefined content gives the empty sequence
\* for both values of ignoreEmptyLines.
C10_EmptyContentEmptyResult ==
    (split.state = "returned" /\ split.content \in EmptyContents)
        => split.result = <<>>

\* C10 amended: the call always returns; for empty, null or undefined content
\* the result is the empty sequence when ignoreEmptyLines = true and the
\* one-element sequence holding the empty string when it is false.
C10_EmptyContentResultByFlag ==
    /\ split.state = "called" => ENABLED SplitReturn
    /\ (split.state = "returned" /\ split.content \in EmptyContents)
        => split.result = IF split.ignoreEmptyLines THEN <<>> ELSE <<<<>>>>

C10_Witness ==
    /\ split.state = "returned"
    /\ split.content = JsNull
    /\ ~split.ignoreEmptyLines
    /\ split.result = <<<<>>>>

-----------------------------------------------------------------------------
(* Properties of the synthesizers *)

StartsWith(s, prefix) == Len(s) >= Len(prefix) /\ SubSeq(s, 1, Len(prefix)) = prefix

EndsWith(s, suffix) ==
    Len(s) >= Len(suffix) /\ SubSeq(s, Len(s) - Len(suffix) + 1, Len(s)) = suffix

\* the lines of a body: the body cut at the line ends the join put in
BodyLines(body) == IF body = <<>> THEN <<>> ELSE SplitRegExp(body, 1)

\* the number of characters of a line before its first "//", the whole
\* length when it holds none
LengthBeforeComment(line) ==
    LET at == {i \in 1..(Len(line) - 1) : line[i] = "/" /\ line[i + 1] = "/"}
    IN  IF at = {} THEN Len(line) ELSE (CHOOSE i \in at : \A j \in at : i <= j) - 1

HasCommentText(line) == LengthBeforeComment(line) < Len(line)

\* the results of the file's lines that matched, in the order of the file
ExpectedRecords(c) ==
    LET hit == SelectSeq(c.srcLines, LAMBDA l : c.extract[l].matched)
    IN  [i \in 1..Len(hit) |-> c.extract[hit[i]]]

SynthResolvedAs(fns) == synth.state = "resolved" /\ synth.fn \in fns

\* C4: in simple mode, when a matched record carries a comment, every member
\* line has the same length up to its "//", and a record without a comment
\* gets that length and no "//".
C4_CommentColumnShared ==
    LET recs == ExpectedRecords(synth)
        body == BodyLines(synth.value)
    IN  (/\ SynthResolvedAs({"getEnums"})
         /\ \E i \in 1..Len(recs) : Truthy(recs[i].comment))
        => /\ Len(body) = Len(recs)
           /\ \A i, j \in 1..Len(body) :
                LengthBeforeComment(body[i]) = LengthBeforeComment(body[j])
           /\ \A i \in 1..Len(body) : HasCommentText(body[i]) <=> Truthy(recs[i].comment)

C4_Witness ==
    LET recs == ExpectedRecords(synth)
        body == BodyLines(synth.value)
    IN  /\ SynthResolvedAs({"getEnums"})
        /\ Len(recs) = 2
        /\ Truthy(recs[1].comment) /\ ~Truthy(recs[2].comment)
        /\ Len(MemberLine(recs[1].name, recs[1].value))
            < Len(MemberLine(recs[2].name, recs[2].value))
        /\ LengthBeforeComment(body[1]) = Len(body[2])

\* the member line a body line was padded from, by function
UnpaddedLine(fn, rec) ==
    IF fn = "getEnums" THEN MemberLine(rec.name, rec.value)
    ELSE IF fn = "getEnumsWithDescription" THEN MemberLine(rec.value, rec.value)
    ELSE MemberLine(rec.groups[1], rec.groups[1])

\* the body whose comments are aligned: the only one of getEnums, the primary
\* one of the description mode
AlignedBody(c) == IF c.fn = "getEnums" THEN c.value ELSE c.value[1]

\* C5: in simple mode with comments and in description mode the column of
\* "//" is the smallest multiple of 4 that is at least L + 4, L the length of
\* the longest unpadded member line.
C5_ColumnIsNextTabStop ==
    LET recs == ExpectedRecords(synth)
        body == BodyLines(AlignedBody(synth))
        L == MaxOf({Len(UnpaddedLine(synth.fn, recs[i])) : i \in 1..Len(recs)})
    IN  (/\ SynthResolvedAs({"getEnums", "getEnumsWithDescription",
                             "getEnumsWithDescriptionRegExp"})
         /\ \E i \in 1..Len(body) : HasCommentText(body[i]))
        => \A i \in 1..Len(body) :
            HasCommentText(body[i]) =>
                LET C == LengthBeforeComment(body[i])
                IN  C % 4 = 0 /\ C >= L + 4 /\ C - 4 < L + 4

\* the description the pattern-driven mode gives a match
ExpectedDescription(pdf, rest) ==
    IF pdf.absent \/ pdf.table[rest].isNull \/ Len(pdf.table[rest].arr) = 0
    THEN rest
    ELSE Head(pdf.table[rest].arr)

RecordValue(c, rec) == IF c.fn = "getEnumsWithDescription" THEN rec.value ELSE rec.groups[1]

RecordDescription(c, rec) ==
    IF c.fn = "getEnumsWithDescription" THEN rec.comment
    ELSE ExpectedDescription(c.parseDescriptionFunc, rec.groups[2])

\* C6: in description mode the two bodies have one line per matched record,
\* in the order of the source; the i-th primary line is the member line
\* value_i = 'value_i' followed by the comment "// description_i", the i-th
\* description line is the member line value_i = 'description_i'.
C6_DescriptionBodiesPaired ==
    LET recs == ExpectedRecords(synth)
        primary == BodyLines(synth.value[1])
        description == BodyLines(synth.value[2])
    IN  SynthResolvedAs({"getEnumsWithDescription", "getEnumsWithDescriptionRegExp"})
        => /\ Len(primary) = Len(recs)
           /\ Len(description) = Len(recs)
           /\ \A i \in 1..Len(recs) :
                LET v == RecordValue(synth, recs[i])
                    d == RecordDescription(synth, recs[i])
                IN  /\ StartsWith(primary[i], MemberLine(v, v))
                    /\ EndsWith(primary[i], <<SP, "/", "/", SP>> \o ToText(d))
                    /\ description[i] = MemberLine(v, d)

C6_Witness ==
    LET recs == ExpectedRecords(synth)
        description == BodyLines(synth.value[2])
    IN  /\ SynthResolvedAs({"getEnumsWithDescription"})
        /\ Len(recs) = 2
        /\ recs[1].value = <<"B", "B">> /\ recs[1].comment = <<"c">>
        /\ recs[2].value = <<"A">> /\ recs[2].comment = <<"d", "d">>
        /\ description = <<MemberLine(<<"B", "B">>, <<"c">>), MemberLine(<<"A">>, <<"d", "d">>)>>

\* C7: the body of getEnums has one line per matched record, in the order of
\* the source, duplicates kept; the k-th line starts with the member line of
\* the k-th record, and is exactly that line when no record has a comment.
C7_OneLinePerRecordInOrder ==
    LET recs == ExpectedRecords(synth)
        body == BodyLines(synth.value)
    IN  SynthResolvedAs({"getEnums"})
        => /\ Len(body) = Len(recs)
           /\ \A k \in 1..Len(recs) :
                /\ StartsWith(body[k], MemberLine(recs[k].name, recs[k].value))
                /\ (\A j \in 1..Len(recs) : ~Truthy(recs[j].comment))
                    => body[k] = MemberLine(recs[k].name, recs[k].value)

C7_Witness ==
    LET recs == ExpectedRecords(synth)
        body == BodyLines(synth.value)
    IN  /\ SynthResolvedAs({"getEnums"})
        /\ Len(synth.srcLines) = 2
        /\ Len(recs) = 2
        /\ recs[1].name = recs[2].name /\ recs[1].value # recs[2].value
        /\ Len(body) = 2
        /\ body[1] # body[2]

-----------------------------------------------------------------------------
(* Properties of the built-in strategies *)

MatchReturned(strategies) == match.state = "returned" /\ match.strategy \in strategies

\* C11: for every built-in strategy and every line it matches, the value of
\* the returned record equals its name; the positional value argument of the
\* line is never returned
C11_ValueEqualsName ==
    MatchReturned(Strategies) /\ match.result.matched
        => match.result.value = match.result.name

\* a line with a positional value that differs from the name was matched
C11_Witness ==
    /\ MatchReturned({"parseNameCommentValue"})
    /\ match.result.matched
    /\ REG_EXP_NAME_COMMENT_VALUE(match.line).groups[4] # match.result.name
    /\ match.result.value = match.result.name

Plain(s, special) == \A i \in 1..Len(s) : s[i] \notin special

\* line read as NAME(value, "comment" ...): value is not empty and holds no
\* comma, quote or backslash, comment is not empty and holds no quote or
\* backslash, and no quote follows the closing one
ValueCommentForm(line) ==
    LET n == Len(line)
        o == OpenParen(line, 1)
        ks == {i \in (o + 1)..n : line[i] = ","}
        k == MinOf(ks)
        ts == {i \in (k + 1)..n : line[i] \notin SpaceChars}
        t == MinOf(ts)
        cs == {i \in (t + 1)..n : line[i] = line[t]}
        c == MinOf(cs)
    IN  IF /\ o # 0 /\ ks # {} /\ ts # {} /\ line[t] \in QuoteChars /\ cs # {}
           /\ k > o + 1 /\ Plain(SubSeq(line, o + 1, k - 1), {DQ, SQ, BS})
           /\ c > t + 1 /\ Plain(SubSeq(line, t + 1, c - 1), {DQ, SQ, BS})
           /\ Plain(SubSeq(line, c + 1, n), QuoteChars)
        THEN [isForm |-> TRUE, name |-> NameAt(line, 1),
              value |-> SubSeq(line, o + 1, k - 1), comment |-> SubSeq(line, t + 1, c - 1)]
        ELSE [isForm |-> FALSE]

\* C12 as stated: on a line NAME(value, "comment" ...) parseNameValueComment
\* returns the raw text between the parenthesis and the comma as value, and
\* the quoted text as comment
C12_RawValueReturned ==
    MatchReturned({"parseNameValueComment"}) /\ ValueCommentForm(match.line).isForm
        => /\ match.result.matched
           /\ match.result.value = ValueCommentForm(match.line).value
           /\ match.result.comment = ValueCommentForm(match.line).comment

\* C12 amended: on a line NAME(value, "comment" ...) parseNameValueComment
\* returns the name both as name and as value, the raw value text is not
\* returned, and the comment is the quoted text
C12_NameReturnedAsValue ==
    MatchReturned({"parseNameValueComment"}) /\ ValueCommentForm(match.line).isForm
        => /\ match.result.matched
           /\ match.result.name = ValueCommentForm(match.line).name
           /\ match.result.value = ValueCommentForm(match.line).name
           /\ match.result.comment = ValueCommentForm(match.line).comment

\* such a line, its value text differing from its name, was parsed
C12_Witness ==
    /\ MatchReturned({"parseNameValueComment"})
    /\ ValueCommentForm(match.line).isForm
    /\ ValueCommentForm(match.line).value # ValueCommentForm(match.line).name
    /\ match.result.comment = ValueCommentForm(match.line).comment

QuotedStrategies == {"parseNameComment", "parseNameValueComment", "parseNameCommentValue"}

\* the quotes of the kind of line[t] after position t that end a text opened
\* at t: those no backslash precedes
Terminators(line, t) ==
    {c \in (t + 1)..Len(line) : line[c] = line[t] /\ line[c - 1] # BS}

\* text is what stands between the quote at t and its first terminator
DelimitedAt(line, t, text) ==
    /\ line[t] \in QuoteChars
    /\ Terminators(line, t) # {}
    /\ \A c \in Terminators(line, t) : t + Len(text) + 1 <= c
    /\ t + Len(text) + 1 \in Terminators(line, t)
    /\ text = SubSeq(line, t + 1, t + Len(text))

\* C13: in the quoted-comment strategies the comment ends at the first quote
\* of the opening kind that no backslash precedes, other quotes and escaped
\* quotes staying in it unmodified; a line without such a terminating quote
\* does not match
C13_CommentEndsAtFirstUnescapedQuote ==
    MatchReturned(QuotedStrategies) =>
        /\ match.result.matched /\ match.result.comment # JsUndefined
            => \E t \in 1..Len(match.line) :
                    DelimitedAt(match.line, t, match.result.comment)
        /\ (\A t \in 1..Len(match.line) :
                match.line[t] \in QuoteChars => Terminators(match.line, t) = {})
            => ~match.result.matched

-----------------------------------------------------------------------------
(* Properties of generateIndex *)

\* the enum names the text re-exports, in the order of the text: what stands
\* between each "export * from './" and the "';" that follows it
ReExported(text) ==
    LET at == {i \in 1..Len(text) : text[i] = "export * from './"}
        nth[k \in 1..Cardinality(at)] ==
            CHOOSE i \in at : Cardinality({j \in at : j < i}) = k - 1
        close(i) == MinOf({j \in i..Len(text) : text[j] = "';"})
    IN  [k \in 1..Cardinality(at) |-> SubSeq(text, nth[k] + 1, close(nth[k]) - 1)]

\* C14: the index text re-exports the enumName of every job, in the order of
\* the job list, then every extra enum name, in the order supplied, and
\* nothing else: len(jobs) + len(extras) re-export lines
C14_IndexListsJobsThenExtras ==
    index.state \in {"log", "resolved"} =>
        /\ Len(index.written) = 1
        /\ ReExported(index.written[1].text) = index.enumNames \o index.extraEnums
        /\ Len(BodyLines(index.written[1].text)) =
              Len(BodyLines(IndexBanner)) + Len(index.enumNames) + Len(index.extraEnums)

\* an index of two jobs and two extras, one extra named like a job, was written
C14_Witness ==
    /\ index.state = "resolved"
    /\ Len(index.enumNames) = 2 /\ Len(index.extraEnums) = 2
    /\ index.enumNames[1] # index.enumNames[2]
    /\ index.extraEnums[1] = index.enumNames[2]
    /\ index.extraEnums[2] # index.enumNames[2]
    /\ Len(index.written) = 1

-----------------------------------------------------------------------------
(* Properties of the batch: failures *)

\* C15: when readFile or writeFile fails for a job the batch call rejects
\* with the error that call raised; the job gets no success status (and no
\* write after a failed read), and no later job is located, read or written
C15_IOFailureRejectsWithOriginalError ==
    batch.raised # NothingRaised =>
        /\ batch.state = "rejected"
        /\ batch.error = batch.raised.error
        /\ ~HasEvent("success", batch.raised.job)
        /\ batch.raised.op = "readFile" => ~HasEvent("write", batch.raised.job)
        /\ \A p \in 1..Len(batch.trace) : batch.trace[p].job <= batch.raised.job
        /\ \A p \in 1..Len(batch.fsOps) : batch.fsOps[p].job <= batch.raised.job
        /\ batch.fsOps[Len(batch.fsOps)] =
              [batch.fsOps[Len(batch.fsOps)] EXCEPT
                    !.op = batch.raised.op, !.job = batch.raised.job, !.failed = TRUE]

\* the write of the first of two jobs failed
C15_Witness ==
    /\ batch.state = "rejected"
    /\ Len(batch.parseInfos) = 2
    /\ batch.raised.job = 1
    /\ batch.raised.op = "writeFile"
    /\ batch.error \in WriteErrors

\* C16: for a job whose source directory is empty or absent the discovery
\* raises before any filesystem call is made for the job; the error comes out
\* of the batch call as it is, not as a "not found"
C16_MissingDirectoryRaisesBeforeIO ==
    \A j \in 1..Len(batch.parseInfos) :
        ~Truthy(batch.parseInfos[j].srcDirectory) /\ HasEvent("find", j) =>
            /\ batch.state = "rejected"
            /\ batch.error = "Doesn't specify the source directory"
            /\ batch.notFound # j
            /\ \A p \in 1..Len(batch.fsOps) : batch.fsOps[p].job # j

\* the second job has no source directory, the first one was generated
C16_Witness ==
    /\ batch.state = "rejected"
    /\ batch.i = 2
    /\ ~Truthy(batch.parseInfos[2].srcDirectory)
    /\ HasEvent("success", 1)
    /\ \E p \in 1..Len(batch.fsOps) : batch.fsOps[p].op = "readdir"

\* C18: every job whose source was found and read comes to an end: the
\* promise of its synthesis settles, and the job is written and logged or
\* its error is raised to the caller.  The batch call is in its loop, or
\* resolved, or rejected; it is never left waiting on a promise that will
\* not settle.
C18_ReadJobTerminates ==
    \/ batch.state \in {LoopBody[k] : k \in 1..Len(LoopBody)}
    \/ batch.state \in {"resolved", "rejected"}

\* the directories of tree whose listing holds a regular file called name
HoldingDirs(tree, name) ==
    {dir \in DOMAIN tree :
        /\ ~tree[dir].failed
        /\ \E k \in 1..Len(tree[dir].entries) :
                tree[dir].entries[k] = Dirent(name, "file")}

\* the directories the discovery of job j listed, the failed listings included
ListedDirs(j) ==
    {batch.fsOps[p].path : p \in {q \in 1..Len(batch.fsOps) :
        batch.fsOps[q].op = "readdir" /\ batch.fsOps[q].job = j}}

\* C20: a failure to list a directory is never raised: the discovery goes on
\* with the directories that follow, and when the file is found nowhere the
\* batch call rejects with the "not found" error, not with the I/O error
C20_ListingFailureSwallowed ==
    (\E p \in 1..Len(batch.fsOps) :
        batch.fsOps[p] = [batch.fsOps[p] EXCEPT
                            !.op = "readdir", !.job = batch.i, !.failed = TRUE])
    => /\ batch.error # ReaddirError
       /\ HoldingDirs(batch.tree, Info.srcFileName) = {}
            => /\ batch.state = "rejected"
               /\ batch.error = "File is not found"
               /\ ListedDirs(batch.i) = DOMAIN batch.tree
       /\ HoldingDirs(batch.tree, Info.srcFileName) # {}
            => HoldingDirs(batch.tree, Info.srcFileName) \cap ListedDirs(batch.i) # {}

\* d/a could not be listed, d/b was listed after it, the file is nowhere
C20_Witness ==
    /\ batch.state = "rejected"
    /\ batch.error = "File is not found"
    /\ batch.i = 1
    /\ batch.fsOps = <<FsOp("readdir", 1, <<"d">>, FALSE),
                       FsOp("readdir", 1, <<"d", "/", "a">>, TRUE),
                       FsOp("readdir", 1, <<"d", "/", "b">>, FALSE)>>

-----------------------------------------------------------------------------
(* Properties of the pattern-driven synthesizers *)

\* C17: generation is deterministic: the same job (the same pattern object)
\* on the same content, run twice, gives the same output both times, in
\* simple and in description mode
C17_SecondRunSameOutput ==
    stream.run = 2 /\ stream.state \in {"done", "dataThrew", "closeThrew"} =>
        /\ stream.state = "done"
        /\ stream.outputs[2] = stream.outputs[1]

\* C19: matching carries no state from line to line: a line accepted by
\* test() always yields an extraction, and what a line yields depends on the
\* line only, wherever in the file and in whichever run it stands; this for
\* patterns with the g or y flag too
C19_NoStateBetweenLines ==
    /\ stream.state # "dataThrew"
    /\ \A p, q \in 1..Len(stream.seen) :
            stream.seen[p].line = stream.seen[q].line
                => stream.seen[p].regArr = stream.seen[q].regArr

====
